---- MODULE Spec2Model ----
(***************************************************************************)
(* PosturePal, src/pages/Analysis.tsx: the Analysis component as a state   *)
(* machine.  The component's React state, the two Supabase tables it       *)
(* writes (posture_sessions, posture_measurements), the asynchronous calls *)
(* in flight (startSession, stopSession, saveMeasurement) and the          *)
(* requestAnimationFrame chains started by the pose effect.                *)
(*                                                                         *)
(* Every `await` splits a handler in two: the part up to the await is one  *)
(* action, the response of the awaited service together with the           *)
(* continuation that runs on it is another.  State updates issued in one   *)
(* continuation are committed together (React's automatic batching), and   *)
(* the pose effect re-runs with that commit when isAnalyzing changed.      *)
(***************************************************************************)
EXTENDS Integers, Sequences, FiniteSets, Bags, TLC

\* ---- bounds of the model ----
MaxSessions == 2       \* session records created
MaxPending == 2        \* stopSession calls in flight
MaxSaves == 2          \* saveMeasurement calls in flight plus rows of posture_measurements
MaxStale == 1          \* frame chains that outlived their effect
MaxClockSteps == 1     \* advances of the wall clock
Overshoot == 100       \* thousandths by which a prediction may leave [0, 1]
MaxHistory == 3        \* measurements handed to the statistics
MaxCoord == 2          \* largest coordinate of the points handed to angleABC alone

\* ---- values ----
Null == 0              \* sessionId: null; session ids are 1, 2, ...
NoScore == <<>>        \* currentScore: null; a score s is <<s>>

\* args / result while no pure function has been called
NoCall == [fn |-> "none", value |-> <<>>]

\* toast titles / descriptions
NoNotice == "none"
SessionStarted == "Session Started"
SessionEnded == "Session Ended"
StartFailed == "Failed to start analysis session."
StopFailed == "Failed to end analysis session."
CameraError == "Camera Error"

\* What one frame yields: the scoring model's output for the frame's features,
\* in thousandths, and the issue flags analyzePosture reports true for it.
Poses ==
  { [pred |-> 405, flags |-> {}],
    [pred |-> 875, flags |-> {"headTilt", "shouldersUneven"}] }

VARIABLES
  isAnalyzing,    \* useState(false)
  sessionId,      \* useState(null)
  setup,          \* detector and model: "pending", "done" (both set), "failed"
  currentScore,   \* useState(null)
  postureIssues,  \* useState([])
  notice,         \* the last toast shown
  sessions,       \* table posture_sessions: row i has id i
  measurements,   \* table posture_measurements, in insertion order
  now,            \* wall clock, ms
  startAuth,      \* startSession calls awaiting auth.getUser
  startInsert,    \* startSession calls awaiting the session insert
  stops,          \* bag of stopSession calls awaiting the session update
  saves,          \* bag of saveMeasurement calls in flight
  chains,         \* bag of detectPose chains: frame requested or tick suspended
  args,           \* the argument of a call of a pure function of the component
  result          \* what that call returned

vars == <<isAnalyzing, sessionId, setup, currentScore, postureIssues, notice,
          sessions, measurements, now, startAuth, startInsert, stops, saves,
          chains, args, result>>

Put(b, e) == b (+) SetToBag({e})
Take(b, e) == b (-) SetToBag({e})

\* Math.round(prediction * 100), prediction given in thousandths:
\* Math.round(x) is floor(x + 0.5).
Round(p) == (p + 5) \div 10

\* Object.entries(issues) order of the boolean flags.
IssueKeys == <<"headTilt", "shouldersUneven", "headTooLow", "headTooForward">>

\* key.replace(/([A-Z])/g, ' $1').trim()
IssueLabel(k) ==
  CASE k = "headTilt" -> "head Tilt"
    [] k = "shouldersUneven" -> "shoulders Uneven"
    [] k = "headTooLow" -> "head Too Low"
    [] k = "headTooForward" -> "head Too Forward"

\* Object.entries(issues).filter(value === true).map(label)
IssueList(flags) ==
  LET kept == SelectSeq(IssueKeys, LAMBDA k : k \in flags)
  IN [i \in 1..Len(kept) |-> IssueLabel(kept[i])]

\* The component after construction.
Mounted ==
  /\ isAnalyzing = FALSE
  /\ sessionId = Null
  /\ setup = "pending"
  /\ currentScore = NoScore
  /\ postureIssues = <<>>
  /\ notice = NoNotice
  /\ sessions = <<>>
  /\ measurements = <<>>
  /\ now = 0
  /\ startAuth = 0
  /\ startInsert = 0
  /\ stops = EmptyBag
  /\ saves = EmptyBag
  /\ chains = EmptyBag

Init ==
  /\ Mounted
  /\ args = NoCall
  /\ result = NoCall

\* ---- the pose effect and its frame chains ----

\* detectPose up to its first await or return: video not ready -> request the
\* next frame; no 2D context -> return; otherwise suspend in estimatePoses.
DetectPoseEntry(c, videoReady, hasCtx) ==
  IF ~videoReady THEN SetToBag({[c EXCEPT !.pc = "frame"]})
  ELSE IF ~hasCtx THEN EmptyBag
  ELSE SetToBag({[c EXCEPT !.pc = "estimating"]})

\* The effect's cleanup: cancelAnimationFrame(animationFrame) removes the frame
\* the current chain has requested; a tick suspended in estimatePoses has no
\* requested frame to cancel and goes on, no longer owned by any effect.
EffectCleanup(chs) ==
  LET cur == {c \in BagToSet(chs) : c.current}
  IN IF cur = {} THEN chs
     ELSE LET c == CHOOSE x \in cur : TRUE
          IN IF c.pc = "frame" THEN Take(chs, c)
             ELSE Put(Take(chs, c), [c EXCEPT !.current = FALSE])

\* The effect body: nothing without detector and model; otherwise a new chain
\* whose closures hold this render's isAnalyzing and sessionId.
PoseEffect(chs, ready, analyzing, sid, videoReady, hasCtx) ==
  IF ~ready THEN chs
  ELSE EffectCleanup(chs)
       (+) DetectPoseEntry([analyzing |-> analyzing, sid |-> sid,
                            pc |-> "frame", current |-> TRUE],
                           videoReady, hasCtx)

Stale(chs) == BagCardinality(chs) - Cardinality({c \in BagToSet(chs) : c.current})

\* Bound on the chains a re-run of the effect may leave behind.
MayRerun == \A c \in BagToSet(chains) :
              (c.current /\ c.pc = "estimating") => Stale(chains) < MaxStale

\* ---- camera setup (first effect) ----

\* setupCamera succeeds: detector and model are set, which runs the pose effect.
SetupCameraOk(videoReady, hasCtx) ==
  /\ setup = "pending"
  /\ setup' = "done"
  /\ chains' = PoseEffect(chains, TRUE, isAnalyzing, sessionId, videoReady, hasCtx)
  /\ UNCHANGED <<args, result,
                 isAnalyzing, sessionId, currentScore, postureIssues, notice,
                 sessions, measurements, now, startAuth, startInsert, stops, saves>>

\* setupCamera throws (tf.ready, createDetector, loadLayersModel, getUserMedia).
SetupCameraFails ==
  /\ setup = "pending"
  /\ setup' = "failed"
  /\ notice' = CameraError
  /\ UNCHANGED <<args, result,
                 isAnalyzing, sessionId, currentScore, postureIssues, sessions,
                 measurements, now, startAuth, startInsert, stops, saves, chains>>

\* ---- session lifecycle ----

\* The buttons: Start Analysis is rendered iff !isAnalyzing, Stop Analysis otherwise.
StartButtonShown == ~isAnalyzing
StopButtonShown == isAnalyzing

\* Click on Start Analysis: startSession runs up to `await supabase.auth.getUser()`.
StartSession ==
  /\ StartButtonShown
  /\ Len(sessions) + startAuth + startInsert < MaxSessions
  /\ startAuth' = startAuth + 1
  /\ UNCHANGED <<args, result,
                 isAnalyzing, sessionId, setup, currentScore, postureIssues, notice,
                 sessions, measurements, now, startInsert, stops, saves, chains>>

\* getUser yields no user: `if (!user) return;`
StartNoUser ==
  /\ startAuth > 0
  /\ startAuth' = startAuth - 1
  /\ UNCHANGED <<args, result,
                 isAnalyzing, sessionId, setup, currentScore, postureIssues, notice,
                 sessions, measurements, now, startInsert, stops, saves, chains>>

\* getUser yields a user: the insert into posture_sessions is issued and awaited.
StartGotUser ==
  /\ startAuth > 0
  /\ startAuth' = startAuth - 1
  /\ startInsert' = startInsert + 1
  /\ UNCHANGED <<args, result,
                 isAnalyzing, sessionId, setup, currentScore, postureIssues, notice,
                 sessions, measurements, now, stops, saves, chains>>

\* The insert answers with an error: `if (error) throw error`, caught, toast.
StartInsertFails ==
  /\ startInsert > 0
  /\ startInsert' = startInsert - 1
  /\ notice' = StartFailed
  /\ UNCHANGED <<args, result,
                 isAnalyzing, sessionId, setup, currentScore, postureIssues,
                 sessions, measurements, now, startAuth, stops, saves, chains>>

\* The insert succeeds: the row exists.  `returned` says whether the answer
\* carries it (data.id) or no data, the case `data?.id ?? null` provides for:
\* setSessionId(data?.id ?? null).  Then
\* setIsAnalyzing(true) and the toast; the pose effect re-runs if isAnalyzing
\* changed.
StartInsertOk(returned, videoReady, hasCtx) ==
  /\ startInsert > 0
  /\ ~isAnalyzing => MayRerun
  /\ startInsert' = startInsert - 1
  /\ sessions' = Append(sessions, [is_active |-> TRUE, ended |-> FALSE, updates |-> 0])
  /\ sessionId' = IF returned THEN Len(sessions) + 1 ELSE Null
  /\ isAnalyzing' = TRUE
  /\ notice' = SessionStarted
  /\ chains' = IF isAnalyzing THEN chains
               ELSE PoseEffect(chains, setup = "done", TRUE, sessionId',
                               videoReady, hasCtx)
  /\ UNCHANGED <<args, result,
                 setup, currentScore, postureIssues, measurements, now, startAuth,
                 stops, saves>>

\* stopSession without its `if (!sessionId) return;`: the update is issued for
\* whatever id the closure holds.
StopSessionUnguarded ==
  /\ StopButtonShown
  /\ BagCardinality(stops) < MaxPending
  /\ stops' = Put(stops, sessionId)
  /\ UNCHANGED <<args, result,
                 isAnalyzing, sessionId, setup, currentScore, postureIssues,
                 notice, sessions, measurements, now, startAuth, startInsert,
                 saves, chains>>

\* Click on Stop Analysis: `if (!sessionId) return;`, otherwise the update of the
\* session row (ended_at: new Date(), is_active: false) is issued and awaited;
\* a pending call is the session id its closure holds.
StopSession ==
  /\ StopButtonShown
  /\ IF sessionId = Null
     THEN UNCHANGED vars
     ELSE /\ BagCardinality(stops) < MaxPending
          /\ stops' = Put(stops, sessionId)
          /\ UNCHANGED <<args, result,
                 isAnalyzing, sessionId, setup, currentScore, postureIssues,
                         notice, sessions, measurements, now, startAuth, startInsert,
                         saves, chains>>

\* The update succeeds: the row is ended; setIsAnalyzing(false), setSessionId(null),
\* toast; the pose effect re-runs if isAnalyzing changed.  `ended` says ended_at
\* is set, `updates` counts the updates applied to the row.
StopUpdateOk(s, videoReady, hasCtx) ==
  /\ BagIn(s, stops)
  /\ isAnalyzing => MayRerun
  /\ stops' = Take(stops, s)
  /\ sessions' = [sessions EXCEPT ![s] =
                    [is_active |-> FALSE, ended |-> TRUE,
                     updates |-> @.updates + 1]]
  /\ isAnalyzing' = FALSE
  /\ sessionId' = Null
  /\ notice' = SessionEnded
  /\ chains' = IF isAnalyzing
               THEN PoseEffect(chains, setup = "done", FALSE, Null, videoReady, hasCtx)
               ELSE chains
  /\ UNCHANGED <<args, result,
                 setup, currentScore, postureIssues, measurements, now, startAuth,
                 startInsert, saves>>

\* stopSession with its state updates issued before `if (error) throw error`.
StopUpdateFailsAfterIdle(s) ==
  /\ BagIn(s, stops)
  /\ stops' = Take(stops, s)
  /\ isAnalyzing' = FALSE
  /\ sessionId' = Null
  /\ notice' = StopFailed
  /\ UNCHANGED <<args, result,
                 setup, currentScore, postureIssues, sessions, measurements, now,
                 startAuth, startInsert, saves, chains>>

\* The update answers with an error: thrown, caught, toast.
StopUpdateFails(s) ==
  /\ BagIn(s, stops)
  /\ stops' = Take(stops, s)
  /\ notice' = StopFailed
  /\ UNCHANGED <<args, result,
                 isAnalyzing, sessionId, setup, currentScore, postureIssues,
                 sessions, measurements, now, startAuth, startInsert, saves, chains>>

\* ---- the per-frame loop ----

\* saveMeasurement up to its first await: `if (!sessionId) return;`, then getUser.
SaveMeasurementCall(svs, sid, score, flags) ==
  IF sid = Null THEN svs
  ELSE Put(svs, [sid |-> sid, score |-> score, flags |-> flags, stage |-> "auth"])

\* A requested animation frame fires: detectPose runs to its first await or return.
FrameFires(c, videoReady, hasCtx) ==
  /\ BagIn(c, chains)
  /\ c.pc = "frame"
  /\ chains' = Take(chains, c) (+) DetectPoseEntry(c, videoReady, hasCtx)
  /\ UNCHANGED <<args, result,
                 isAnalyzing, sessionId, setup, currentScore, postureIssues, notice,
                 sessions, measurements, now, startAuth, startInsert, stops, saves>>

\* estimatePoses resolves with `poses` (<<>> or <<pose>>): draw; if a pose was
\* found and the closure's isAnalyzing is true, score it and call saveMeasurement
\* (not awaited); request the next frame.
EstimateResolves(c, poses) ==
  /\ BagIn(c, chains)
  /\ c.pc = "estimating"
  /\ LET scored == poses # <<>> /\ c.analyzing
     IN /\ (scored /\ c.sid # Null)
             => BagCardinality(saves) + Len(measurements) < MaxSaves
        /\ saves' = IF scored
                    THEN SaveMeasurementCall(saves, c.sid, Round(poses[1].pred),
                                             poses[1].flags)
                    ELSE saves
  /\ chains' = Put(Take(chains, c), [c EXCEPT !.pc = "frame"])
  /\ UNCHANGED <<args, result,
                 isAnalyzing, sessionId, setup, currentScore, postureIssues, notice,
                 sessions, measurements, now, startAuth, startInsert, stops>>

\* saveMeasurement: getUser yields no user: return.
SaveNoUser(v) ==
  /\ BagIn(v, saves)
  /\ v.stage = "auth"
  /\ saves' = Take(saves, v)
  /\ UNCHANGED <<args, result,
                 isAnalyzing, sessionId, setup, currentScore, postureIssues, notice,
                 sessions, measurements, now, startAuth, startInsert, stops, chains>>

\* saveMeasurement: getUser yields a user: the measurement insert is issued.
SaveGotUser(v) ==
  /\ BagIn(v, saves)
  /\ v.stage = "auth"
  /\ saves' = Put(Take(saves, v), [v EXCEPT !.stage = "insert"])
  /\ UNCHANGED <<args, result,
                 isAnalyzing, sessionId, setup, currentScore, postureIssues, notice,
                 sessions, measurements, now, startAuth, startInsert, stops, chains>>

\* The measurement insert succeeds: the row exists (created_at: the store's
\* clock); setCurrentScore(score), setPostureIssues(labels of the true flags).
SaveInsertOk(v) ==
  /\ BagIn(v, saves)
  /\ v.stage = "insert"
  /\ saves' = Take(saves, v)
  /\ measurements' = Append(measurements,
                            [session_id |-> v.sid, posture_score |-> v.score,
                             flags |-> v.flags, created_at |-> now])
  /\ currentScore' = <<v.score>>
  /\ postureIssues' = IssueList(v.flags)
  /\ UNCHANGED <<args, result,
                 isAnalyzing, sessionId, setup, notice, sessions, now, startAuth,
                 startInsert, stops, chains>>

\* The measurement insert answers with an error: thrown, caught, console.error.
SaveInsertFails(v) ==
  /\ BagIn(v, saves)
  /\ v.stage = "insert"
  /\ saves' = Take(saves, v)
  /\ UNCHANGED <<args, result,
                 isAnalyzing, sessionId, setup, currentScore, postureIssues, notice,
                 sessions, measurements, now, startAuth, startInsert, stops, chains>>

\* Time passes, a second at a time.
ClockAdvances ==
  /\ now < MaxClockSteps * 1000
  /\ now' = now + 1000
  /\ UNCHANGED <<args, result,
                 isAnalyzing, sessionId, setup, currentScore, postureIssues, notice,
                 sessions, measurements, startAuth, startInsert, stops, saves, chains>>

PoseResults == {<<>>} \cup {<<p>> : p \in Poses}

Next ==
  \/ \E vr \in BOOLEAN, cx \in BOOLEAN : SetupCameraOk(vr, cx)
  \/ SetupCameraFails
  \/ StartSession
  \/ StartNoUser
  \/ StartGotUser
  \/ StartInsertFails
  \/ \E r \in BOOLEAN, vr \in BOOLEAN, cx \in BOOLEAN : StartInsertOk(r, vr, cx)
  \/ StopSession
  \/ \E s \in BagToSet(stops), vr \in BOOLEAN, cx \in BOOLEAN : StopUpdateOk(s, vr, cx)
  \/ \E s \in BagToSet(stops) : StopUpdateFails(s)
  \/ \E c \in BagToSet(chains), vr \in BOOLEAN, cx \in BOOLEAN : FrameFires(c, vr, cx)
  \/ \E c \in BagToSet(chains), ps \in PoseResults : EstimateResolves(c, ps)
  \/ \E v \in BagToSet(saves) : SaveNoUser(v)
  \/ \E v \in BagToSet(saves) : SaveGotUser(v)
  \/ \E v \in BagToSet(saves) : SaveInsertOk(v)
  \/ \E v \in BagToSet(saves) : SaveInsertFails(v)
  \/ ClockAdvances

Spec == Init /\ [][Next]_vars

\* ---- the pure functions, called on their own ----
\* A second specification: the component stays as constructed, args holds the
\* argument of one call and result what the call returns.

component == <<isAnalyzing, sessionId, setup, currentScore, postureIssues, notice,
               sessions, measurements, now, startAuth, startInsert, stops, saves,
               chains>>

Returns(fn, value) ==
  /\ args.fn = fn
  /\ result = NoCall
  /\ result' = [fn |-> fn, value |-> value]
  /\ UNCHANGED <<args, component>>

\* What the scoring model may return for a feature vector, in thousandths.
Predictions == (0 - Overshoot)..(1000 + Overshoot)

\* detectPose: score = Math.round(prediction.dataSync()[0] * 100)
ScoreCall == Returns("score", Round(args.value))

\* ---- Stats: fetchStats' grouping of the measurement history ----

\* new Date(created_at).toLocaleDateString(): the local calendar day of a
\* timestamp; timestamps here are hours of local time, a date is its day number.
LocalDate(t) == t \div 24

\* Sum of a list of scores: scores.reduce((sum, score) => sum + score, 0)
RECURSIVE SumScores(_)
SumScores(scores) ==
  IF scores = <<>> THEN 0 ELSE scores[1] + SumScores(Tail(scores))

\* The mean rounded down: Math.floor in the place of Math.round.
FloorMean(scores) == SumScores(scores) \div Len(scores)

\* Math.round(sum / scores.length): floor(sum / n + 1/2).
RoundMean(scores) == (2 * SumScores(scores) + Len(scores)) \div (2 * Len(scores))

\* One step of the reduce: `if (!acc[date]) acc[date] = []; acc[date].push(score)`.
\* acc is the object's entries in insertion order.
AddToGroup(acc, row) ==
  LET date == LocalDate(row.created_at)
  IN IF \E i \in 1..Len(acc) : acc[i].date = date
     THEN [i \in 1..Len(acc) |->
             IF acc[i].date = date
             THEN [acc[i] EXCEPT !.scores = Append(@, row.posture_score)]
             ELSE acc[i]]
     ELSE Append(acc, [date |-> date, scores |-> <<row.posture_score>>])

\* measurements.reduce(..., {})
RECURSIVE GroupByDate(_, _)
GroupByDate(acc, rows) ==
  IF rows = <<>> THEN acc
  ELSE GroupByDate(AddToGroup(acc, Head(rows)), Tail(rows))

\* Object.entries(groupedData).map(([date, scores]) => ({...}))
DailyStats(rows) ==
  LET groups == GroupByDate(<<>>, rows)
  IN [i \in 1..Len(groups) |->
        [date |-> groups[i].date,
         averageScore |-> RoundMean(groups[i].scores),
         sessionCount |-> Len(groups[i].scores)]]

\* The rows the query may return: created_at, posture_score, ordered by created_at.
Histories ==
  LET Rows == [created_at : {0, 12, 30, 50}, posture_score : {60, 75, 80, 100}]
      Lists == UNION {[1..n -> Rows] : n \in 0..MaxHistory}
  IN {h \in Lists : \A i \in 1..Len(h) - 1 : h[i].created_at <= h[i + 1].created_at}

StatsCall == Returns("stats", DailyStats(args.value))

\* ---- numbers of the geometry, kept exact ----

\* A rational n / d with d > 0: coordinates, their differences and products.
Rat(n, d) == [n |-> n, d |-> d]
RAdd(a, b) == Rat(a.n * b.d + b.n * a.d, a.d * b.d)
RSub(a, b) == Rat(a.n * b.d - b.n * a.d, a.d * b.d)
RMul(a, b) == Rat(a.n * b.n, a.d * b.d)
RHalf(a) == Rat(a.n, 2 * a.d)
RAbs(a) == Rat(IF a.n < 0 THEN 0 - a.n ELSE a.n, a.d)
RLt(a, b) == a.n * b.d < b.n * a.d

\* A JavaScript number: kind "real" is s * sqrt(n / d) with s in {-1, 0, 1};
\* kind "deg" is acos(s * sqrt(n / d)) * 180 / PI; "inf" is s * Infinity;
\* "nan" is NaN.
Sign(k) == IF k < 0 THEN 0 - 1 ELSE IF k = 0 THEN 0 ELSE 1
Real(s, n, d) == [kind |-> "real", s |-> IF n = 0 THEN 0 ELSE s, n |-> n, d |-> d]
FromRat(r) == Real(Sign(r.n), r.n * r.n, r.d * r.d)
Sqrt(r) == Real(1, r.n, r.d)
NaN == [kind |-> "nan", s |-> 0, n |-> 0, d |-> 1]
Infinity(s) == [kind |-> "inf", s |-> s, n |-> 1, d |-> 1]
Mul(a, b) == Real(a.s * b.s, a.n * b.n, a.d * b.d)
\* a / b: x / 0 is +-Infinity, 0 / 0 is NaN
Div(a, b) ==
  IF b.s = 0 THEN (IF a.s = 0 THEN NaN ELSE Infinity(a.s))
  ELSE Real(a.s * b.s, a.n * b.d, a.d * b.n)
\* a < b on reals
Lt(a, b) ==
  IF a.s # b.s THEN a.s < b.s
  ELSE IF a.s = 1 THEN a.n * b.d < b.n * a.d
  ELSE IF a.s = 0 THEN FALSE
  ELSE b.n * a.d < a.n * b.d
\* Math.min(Math.max(x, -1), 1); NaN stays NaN
Clamp(x) ==
  IF x.kind = "nan" THEN NaN
  ELSE IF x.kind = "inf" \/ x.n > x.d THEN Real(x.s, 1, 1)
  ELSE x
\* (Math.acos(x) * 180) / Math.PI; NaN outside [-1, 1]
AcosDeg(x) ==
  IF x.kind # "real" \/ x.n > x.d THEN NaN
  ELSE [kind |-> "deg", s |-> x.s, n |-> x.n, d |-> x.d]

\* ---- extractFeatures, distance2D, angleABC, analyzePosture ----

distance2D(x1, y1, x2, y2) ==
  Sqrt(RAdd(RMul(RSub(x2, x1), RSub(x2, x1)), RMul(RSub(y2, y1), RSub(y2, y1))))

\* The check of line 274 left out: no ray is ever taken for degenerate.
NeverDegenerate(magAB, magCB) == FALSE

\* magAB === 0 || magCB === 0
Degenerate(magAB, magCB) == magAB.s = 0 \/ magCB.s = 0

angleABC(Ax, Ay, Bx, By, Cx, Cy) ==
  LET ABx == RSub(Ax, Bx)
      ABy == RSub(Ay, By)
      CBx == RSub(Cx, Bx)
      CBy == RSub(Cy, By)
      dot == RAdd(RMul(ABx, CBx), RMul(ABy, CBy))
      magAB == Sqrt(RAdd(RMul(ABx, ABx), RMul(ABy, ABy)))
      magCB == Sqrt(RAdd(RMul(CBx, CBx), RMul(CBy, CBy)))
  IN IF Degenerate(magAB, magCB) THEN FromRat(Rat(180, 1))
     ELSE AcosDeg(Clamp(Div(FromRat(dot), Mul(magAB, magCB))))

\* A keypoint of the detector; score is its confidence in hundredths.
Kp(name, x, y, score) ==
  [name |-> name, x |-> Rat(x, 1), y |-> Rat(y, 1), score |-> score]

\* keypoints.find(kp => kp.name === name): <<>> for undefined
Find(keypoints, name) ==
  LET hits == SelectSeq(keypoints, LAMBDA kp : kp.name = name)
  IN IF hits = <<>> THEN <<>> ELSE <<hits[1]>>

\* A keypoint is missing, or its confidence is not above the 0.3 of the drawing.
IsMissingOrUnsure(found) == found = <<>> \/ found[1].score <= 30

\* !nose
IsMissing(found) == found = <<>>

\* !nose || !leftShoulder || !rightShoulder || !leftEar || !rightEar
AnyMissing(keypoints) ==
  \E name \in {"nose", "left_shoulder", "right_shoulder", "left_ear", "right_ear"} :
    IsMissing(Find(keypoints, name))

Zero == FromRat(Rat(0, 1))

extractFeatures(keypoints) ==
  IF AnyMissing(keypoints) THEN <<Zero, Zero, Zero, Zero, Zero, Zero, Zero>>
  ELSE
    LET nose == Find(keypoints, "nose")[1]
        leftShoulder == Find(keypoints, "left_shoulder")[1]
        rightShoulder == Find(keypoints, "right_shoulder")[1]
        leftEar == Find(keypoints, "left_ear")[1]
        rightEar == Find(keypoints, "right_ear")[1]
        midShoulderX == RHalf(RAdd(leftShoulder.x, rightShoulder.x))
        midShoulderY == RHalf(RAdd(leftShoulder.y, rightShoulder.y))
        distNoseShoulders == distance2D(nose.x, nose.y, midShoulderX, midShoulderY)
        shoulderWidth ==
          distance2D(leftShoulder.x, leftShoulder.y, rightShoulder.x, rightShoulder.y)
        ratio == Div(distNoseShoulders, shoulderWidth)
        neckTiltAngle == angleABC(leftEar.x, leftEar.y, nose.x, nose.y, rightEar.x, rightEar.y)
        distLeftEarNose == distance2D(leftEar.x, leftEar.y, nose.x, nose.y)
        distRightEarNose == distance2D(rightEar.x, rightEar.y, nose.x, nose.y)
        angleLeftShoulder ==
          angleABC(leftEar.x, leftEar.y, leftShoulder.x, leftShoulder.y, nose.x, nose.y)
        angleRightShoulder ==
          angleABC(rightEar.x, rightEar.y, rightShoulder.x, rightShoulder.y, nose.x, nose.y)
    IN <<distNoseShoulders, ratio, neckTiltAngle, distLeftEarNose, distRightEarNose,
         angleLeftShoulder, angleRightShoulder>>

earLevelThresh == 15
shoulderLevelThresh == 20

\* diff >= thresh: the threshold itself already trips the flag.
MeetsOrExceeds(diff, thresh) == ~RLt(diff, Rat(thresh, 1))

\* diff > thresh
Exceeds(diff, thresh) == RLt(Rat(thresh, 1), diff)

analyzePosture(keypoints) ==
  IF AnyMissing(keypoints)
  THEN [headTilt |-> FALSE, shouldersUneven |-> FALSE, headTooLow |-> FALSE,
        headTooForward |-> FALSE, neckTiltAngle |-> Zero, leftShoulderAngle |-> Zero,
        rightShoulderAngle |-> Zero]
  ELSE
    LET nose == Find(keypoints, "nose")[1]
        leftShoulder == Find(keypoints, "left_shoulder")[1]
        rightShoulder == Find(keypoints, "right_shoulder")[1]
        leftEar == Find(keypoints, "left_ear")[1]
        rightEar == Find(keypoints, "right_ear")[1]
        shoulderWidth ==
          distance2D(leftShoulder.x, leftShoulder.y, rightShoulder.x, rightShoulder.y)
        headHeight ==
          distance2D(nose.x, nose.y, RHalf(RAdd(leftShoulder.x, rightShoulder.x)),
                     RHalf(RAdd(leftShoulder.y, rightShoulder.y)))
        earHeightDiff == RAbs(RSub(leftEar.y, rightEar.y))
        shoulderHeightDiff == RAbs(RSub(leftShoulder.y, rightShoulder.y))
        headTooLowThresh == Mul(shoulderWidth, FromRat(Rat(6, 10)))
        headTooFarThresh == Mul(shoulderWidth, FromRat(Rat(12, 10)))
    IN [headTilt |-> Exceeds(earHeightDiff, earLevelThresh),
        shouldersUneven |-> Exceeds(shoulderHeightDiff, shoulderLevelThresh),
        headTooLow |-> Lt(headHeight, headTooLowThresh),
        headTooForward |-> Lt(headTooFarThresh, headHeight),
        neckTiltAngle |->
          angleABC(leftEar.x, leftEar.y, nose.x, nose.y, rightEar.x, rightEar.y),
        leftShoulderAngle |->
          angleABC(leftEar.x, leftEar.y, leftShoulder.x, leftShoulder.y, nose.x, nose.y),
        rightShoulderAngle |->
          angleABC(rightEar.x, rightEar.y, rightShoulder.x, rightShoulder.y, nose.x, nose.y)]

\* Keypoint sets the detector may hand over, in pixels: the left shoulder is
\* fixed, the right shoulder level with it, 15, 20, 21 or 25 below it, or on
\* the same column; the nose 0, 50, 59, 60, 61, 120 or 121 above the shoulder
\* line or on the left shoulder; the ears level or 15 or 16 apart.
CompleteSets ==
  { <<Kp("nose", nose[1], nose[2], score),
      Kp("left_ear", leftEar[1], leftEar[2], score),
      Kp("right_ear", 130, rightEarY, score),
      Kp("left_shoulder", 200, 300, score),
      Kp("right_shoulder", rightShoulderX, 300 + drop, score)>> :
      nose \in {<<150, 300>>, <<150, 250>>, <<150, 241>>, <<150, 240>>, <<150, 239>>,
                <<150, 180>>, <<150, 179>>, <<200, 300>>},
      leftEar \in {<<170, 250>>, <<170, 270>>, <<200, 300>>},
      rightEarY \in {250, 265, 266},
      rightShoulderX \in {100, 200},
      drop \in {0, 15, 20, 21, 25},
      score \in {5, 95} }

\* Keypoint sets that keep only some of the keypoints of a full set.
PartialSets ==
  { SelectSeq(full, LAMBDA kp : kp.name \in present) :
      full \in { <<Kp("nose", 150, 200, score), Kp("left_ear", 170, 190, score),
                   Kp("right_ear", 130, 190 + tilt, score),
                   Kp("left_shoulder", 200, 300, score),
                   Kp("right_shoulder", 100, 300, score),
                   Kp("left_hip", 190, 450, score)>> :
                 tilt \in {0, 30}, score \in {5, 95} },
      present \in SUBSET {"nose", "left_ear", "right_ear", "left_shoulder",
                          "right_shoulder", "left_hip"} }

KeypointSets == CompleteSets \cup PartialSets

\* Six coordinates Ax, Ay, Bx, By, Cx, Cy on a small grid.
PointTriples == [1..6 -> 0..MaxCoord]

ExtractFeaturesCall == Returns("extractFeatures", extractFeatures(args.value))

AnalyzePostureCall == Returns("analyzePosture", analyzePosture(args.value))

AngleABCCall ==
  LET p == args.value
  IN Returns("angleABC", angleABC(Rat(p[1], 1), Rat(p[2], 1), Rat(p[3], 1),
                                  Rat(p[4], 1), Rat(p[5], 1), Rat(p[6], 1)))

PureInit ==
  /\ Mounted
  /\ result = NoCall
  /\ \/ args \in {[fn |-> "score", value |-> p] : p \in Predictions}
     \/ args \in {[fn |-> "stats", value |-> h] : h \in Histories}
     \/ args \in {[fn |-> "extractFeatures", value |-> k] : k \in KeypointSets}
     \/ args \in {[fn |-> "analyzePosture", value |-> k] : k \in KeypointSets}
     \/ args \in {[fn |-> "angleABC", value |-> p] : p \in PointTriples}

PureNext ==
  \/ ScoreCall
  \/ StatsCall
  \/ ExtractFeaturesCall
  \/ AnalyzePostureCall
  \/ AngleABCCall

PureSpec == PureInit /\ [][PureNext]_vars

\* ---- properties ----

\* saveMeasurement calls in flight for session sid.
InFlight(sid) ==
  LET mine == {v \in BagToSet(saves) : v.sid = sid}
  IN IF mine = {} THEN 0
     ELSE BagCardinality([v \in mine |-> CopiesIn(v, saves)])

\* C1: any two Measurements persisted for the same session are at least 1000 ms
\* apart (a Measurement is persisted only if none was persisted earlier in the
\* session or 1000 ms have elapsed since the last one).
PersistenceThrottled ==
  \A i, j \in 1..Len(measurements) :
    (i < j /\ measurements[i].session_id = measurements[j].session_id)
      => measurements[j].created_at - measurements[i].created_at >= 1000

\* C2: no Measurement row carrying session id S is inserted once S has been
\* marked ended: every insert into the measurement store is for a session whose
\* record is active.
MeasurementOnlyWhileActive ==
  [][Len(measurements') > Len(measurements)
       => sessions[measurements'[Len(measurements')].session_id].is_active]_vars

\* C3: at most one saveMeasurement call per session is between its start and the
\* completion of its insert.
OneSaveInFlightPerSession ==
  \A sid \in 1..Len(sessions) : InFlight(sid) <= 1

\* C4: a tick that computes a score while the session is active publishes that
\* score and those issues as the live score and issue list, whatever becomes of
\* the measurement insert.
LiveScorePublishedEveryTick ==
  [][\A c \in BagToSet(chains), p \in Poses :
       (isAnalyzing /\ c.analyzing /\ EstimateResolves(c, <<p>>))
         => /\ currentScore' = <<Round(p.pred)>>
            /\ postureIssues' = IssueList(p.flags)]_vars

\* C5: when stopSession completes successfully the live score is null and the
\* issue list is empty.
StopClearsLiveScore ==
  [][\A s \in BagToSet(stops), vr \in BOOLEAN, cx \in BOOLEAN :
       StopUpdateOk(s, vr, cx)
         => currentScore' = NoScore /\ postureIssues' = <<>>]_vars

\* C6: once the pose effect has run, the per-frame loop is live on every path
\* through a tick: a frame is requested or a tick is in progress, so another
\* tick follows.
LoopKeepsRunning ==
  setup = "done" => chains # EmptyBag

\* C7: stopSession invoked while sessionId is null updates no session record and
\* leaves isAnalyzing, sessionId, currentScore and the issue list unchanged; no
\* update is issued and nothing is reported.
StopWithoutSessionIsNoOp ==
  [][(sessionId = Null /\ StopSession)
       => UNCHANGED <<sessions, stops, isAnalyzing, sessionId, currentScore,
                      postureIssues, notice>>]_vars

\* C7 witness: the Stop button is shown while no session id is tracked and no
\* stop is pending: a click takes the early return.
StopWithoutSessionReached ==
  /\ StopButtonShown
  /\ sessionId = Null
  /\ stops = EmptyBag
  /\ Len(sessions) > 0

\* C8: startSession whose auth lookup yields no user creates no Session record,
\* leaves isAnalyzing and sessionId as they were, issues no insert, and reports
\* an error notice.
StartWithoutUserReported ==
  [][StartNoUser
       => /\ notice' = StartFailed
          /\ startAuth' < startAuth
          /\ UNCHANGED <<sessions, isAnalyzing, sessionId, startInsert>>]_vars

\* C9: a failed session insert (start) or session update (stop) leaves
\* isAnalyzing, sessionId and the session store as they were.
FailedTransitionKeepsState ==
  [][/\ StartInsertFails => UNCHANGED <<isAnalyzing, sessionId, sessions>>
     /\ \A s \in BagToSet(stops) :
          StopUpdateFails(s) => UNCHANGED <<isAnalyzing, sessionId, sessions>>]_vars

\* C9 witness: a stop has failed and the lifecycle is still Active on the same
\* session, whose record is still active.
FailedStopReached ==
  /\ notice = StopFailed
  /\ isAnalyzing
  /\ sessionId # Null
  /\ sessions[sessionId].is_active

\* C10: each Session record is created active, updated at most once (by the stop
\* that ends it) and never active again.
SessionEndedExactlyOnce ==
  \A i \in 1..Len(sessions) :
    /\ sessions[i].updates <= 1
    /\ sessions[i].is_active <=> sessions[i].updates = 0

\* C11: the score that is published and persisted as posture_score lies in
\* 0..100 for every value the scoring capability returns.
ScoreClamped ==
  result.fn = "score" => result.value \in 0..100

\* Sum of the scores of the rows of h at the indices in idx.
RECURSIVE ScoreSum(_, _)
ScoreSum(h, idx) ==
  IF idx = {} THEN 0
  ELSE LET i == CHOOSE x \in idx : TRUE
       IN h[i].posture_score + ScoreSum(h, idx \ {i})

\* C12: the statistics hold exactly one DailyStat per calendar date of the
\* input; its sessionCount is the number n of measurements on that date and
\* its averageScore is the integer r nearest their mean (halves up):
\* r - 1/2 <= sum / n < r + 1/2.  The sessionCounts sum to the input length.
AggregatorCorrect ==
  result.fn = "stats" =>
    LET h == args.value
        st == result.value
        On(d) == {j \in 1..Len(h) : LocalDate(h[j].created_at) = d}
        Dates == {LocalDate(h[j].created_at) : j \in 1..Len(h)}
    IN /\ {st[i].date : i \in 1..Len(st)} = Dates
       /\ Len(st) = Cardinality(Dates)
       /\ \A i \in 1..Len(st) :
            LET n == Cardinality(On(st[i].date))
                sum == ScoreSum(h, On(st[i].date))
                r == st[i].averageScore
            IN /\ st[i].sessionCount = n
               /\ 2 * n * r <= 2 * sum + n
               /\ 2 * sum + n < 2 * n * (r + 1)
       /\ ScoreSum([i \in 1..Len(st) |-> [posture_score |-> st[i].sessionCount]],
                   1..Len(st)) = Len(h)

\* C12 witness: scores 80 and 60 on one day and 100 on the next give
\* {70, 2} and {100, 1}.
AggregatorExample ==
  /\ result.fn = "stats"
  /\ args.value = <<[created_at |-> 0, posture_score |-> 80],
                    [created_at |-> 12, posture_score |-> 60],
                    [created_at |-> 30, posture_score |-> 100]>>
  /\ result.value = <<[date |-> 0, averageScore |-> 70, sessionCount |-> 2],
                      [date |-> 1, averageScore |-> 100, sessionCount |-> 1]>>

\* The keypoint called name of the set that was handed over, and whether there
\* is one; coordinates in whole pixels.
Has(name) == \E i \in 1..Len(args.value) : args.value[i].name = name
At(name) == args.value[CHOOSE i \in 1..Len(args.value) : args.value[i].name = name]
X(name) == At(name).x.n
Y(name) == At(name).y.n
Complete ==
  \A name \in {"nose", "left_shoulder", "right_shoulder", "left_ear", "right_ear"} :
    Has(name)
Gap(a, b) == IF a < b THEN b - a ELSE a - b
EarGap == Gap(Y("left_ear"), Y("right_ear"))
ShoulderGap == Gap(Y("left_shoulder"), Y("right_shoulder"))
\* shoulderWidth squared, and four times headHeight squared
WidthSq ==
  (X("left_shoulder") - X("right_shoulder")) * (X("left_shoulder") - X("right_shoulder"))
  + (Y("left_shoulder") - Y("right_shoulder")) * (Y("left_shoulder") - Y("right_shoulder"))
HeightSq4 ==
  (2 * X("nose") - X("left_shoulder") - X("right_shoulder"))
    * (2 * X("nose") - X("left_shoulder") - X("right_shoulder"))
  + (2 * Y("nose") - Y("left_shoulder") - Y("right_shoulder"))
    * (2 * Y("nose") - Y("left_shoulder") - Y("right_shoulder"))

\* C13: for every complete keypoint set, headTilt iff the ears' heights differ
\* by more than 15, shouldersUneven iff the shoulders' heights differ by more
\* than 20 (exactly 15 or 20 trips nothing; 25 gives shouldersUneven, 15 does
\* not), headTooLow iff headHeight < 0.6 * shoulderWidth, headTooForward iff
\* headHeight > 1.2 * shoulderWidth, and the last two are never both true.
IssueThresholds ==
  (result.fn = "analyzePosture" /\ Complete) =>
    LET r == result.value
    IN /\ r.headTilt <=> EarGap > 15
       /\ r.shouldersUneven <=> ShoulderGap > 20
       /\ r.headTooLow <=> 25 * HeightSq4 < 36 * WidthSq
       /\ r.headTooForward <=> 25 * HeightSq4 > 144 * WidthSq
       /\ ~(r.headTooLow /\ r.headTooForward)
       /\ ShoulderGap = 25 => r.shouldersUneven
       /\ ShoulderGap \in {15, 20} => ~r.shouldersUneven
       /\ EarGap = 15 => ~r.headTilt

\* C13 witness: a complete set with the ears exactly 15 and the shoulders
\* exactly 20 apart has been classified, and neither flag is set.
ThresholdsMetExactly ==
  /\ result.fn = "analyzePosture"
  /\ Complete
  /\ EarGap = 15
  /\ ShoulderGap = 20
  /\ ~result.value.headTilt
  /\ ~result.value.shouldersUneven

IsZero(x) == x.kind = "real" /\ x.s = 0 /\ x.n = 0

\* The keypoint set that was handed over with every confidence set to 1.
Confident == [i \in 1..Len(args.value) |-> [args.value[i] EXCEPT !.score = 100]]

\* C14: for every keypoint set lacking one of the five required keypoints,
\* extractFeatures returns seven zeros and analyzePosture returns all four
\* flags false and all three angles 0; confidence plays no role: a set gives
\* the result of the same set with full confidence.
MissingKeypointSentinel ==
  /\ (result.fn = "extractFeatures" /\ ~Complete) =>
       /\ Len(result.value) = 7
       /\ \A i \in 1..7 : IsZero(result.value[i])
  /\ (result.fn = "analyzePosture" /\ ~Complete) =>
       /\ ~result.value.headTilt
       /\ ~result.value.shouldersUneven
       /\ ~result.value.headTooLow
       /\ ~result.value.headTooForward
       /\ IsZero(result.value.neckTiltAngle)
       /\ IsZero(result.value.leftShoulderAngle)
       /\ IsZero(result.value.rightShoulderAngle)
  /\ result.fn = "extractFeatures" => result.value = extractFeatures(Confident)
  /\ result.fn = "analyzePosture" => result.value = analyzePosture(Confident)

\* C14 witness: a set with four of the five required keypoints, all of low
\* confidence, has been handed to extractFeatures and the zero vector returned.
SentinelReturned ==
  /\ result.fn = "extractFeatures"
  /\ ~Has("left_ear")
  /\ Has("nose") /\ Has("right_ear") /\ Has("left_shoulder") /\ Has("right_shoulder")
  /\ At("nose").score = 5
  /\ \A i \in 1..7 : IsZero(result.value[i])

\* C19: for every complete keypoint set whose shoulders coincide, the second
\* feature (the nose-to-shoulder ratio) is 0.
RatioGuarded ==
  (/\ result.fn = "extractFeatures"
   /\ Complete
   /\ WidthSq = 0) => IsZero(result.value[2])

\* A defined angle in degrees within [0, 180].
InDegrees(x) ==
  \/ x.kind = "deg" /\ x.d > 0 /\ 0 <= x.n /\ x.n <= x.d
  \/ x.kind = "real" /\ x.s >= 0 /\ x.d > 0 /\ x.n <= 180 * 180 * x.d
\* The number 180 itself.
Is180(x) == x.kind = "real" /\ x.s = 1 /\ x.n = 180 * 180 * x.d

\* C20: angleABC returns exactly 180 when A or C coincides with the vertex B,
\* and otherwise a defined angle within [0, 180] (right exactly when the rays
\* are perpendicular); the three angles of the feature vector and of the
\* issue report are always defined.
AngleDefined ==
  /\ result.fn = "angleABC" =>
       LET p == args.value
           dot == (p[1] - p[3]) * (p[5] - p[3]) + (p[2] - p[4]) * (p[6] - p[4])
       IN IF (p[1] = p[3] /\ p[2] = p[4]) \/ (p[5] = p[3] /\ p[6] = p[4])
          THEN Is180(result.value)
          ELSE /\ InDegrees(result.value)
               /\ result.value.kind = "deg"
               /\ result.value.s = Sign(dot)
  /\ result.fn = "extractFeatures" =>
       \A i \in {3, 6, 7} : InDegrees(result.value[i])
  /\ result.fn = "analyzePosture" =>
       /\ InDegrees(result.value.neckTiltAngle)
       /\ InDegrees(result.value.leftShoulderAngle)
       /\ InDegrees(result.value.rightShoulderAngle)

\* C20 witness: angleABC was called with A on the vertex and C off it, and
\* returned 180.
DegenerateAngleReturned ==
  /\ result.fn = "angleABC"
  /\ args.value[1] = args.value[3]
  /\ args.value[2] = args.value[4]
  /\ args.value[5] # args.value[3]
  /\ Is180(result.value)

\* C15: a tick executed while the session is inactive (the component's
\* isAnalyzing and the tick's own are both false) runs no pose estimation and
\* scores and persists nothing: no chain enters estimatePoses and no
\* saveMeasurement call is made.
InactiveTickSkipsAnalysis ==
  [][\A c \in BagToSet(chains) :
       (~isAnalyzing /\ ~c.analyzing) =>
         /\ \A vr \in BOOLEAN, cx \in BOOLEAN :
              FrameFires(c, vr, cx) =>
                \A d \in BagToSet(chains') :
                  d.pc = "estimating" => CopiesIn(d, chains') <= CopiesIn(d, chains)
         /\ \A poses \in PoseResults :
              EstimateResolves(c, poses) => saves' = saves]_vars

\* C16: every tick that starts belongs to the one chain of the current effect
\* and holds the current isAnalyzing: no chain left behind by a start or a stop
\* runs another tick.
NoStaleTick ==
  [][\A c \in BagToSet(chains) :
       \A vr \in BOOLEAN, cx \in BOOLEAN :
         FrameFires(c, vr, cx) =>
           /\ c.current
           /\ c.analyzing = isAnalyzing]_vars

\* C17: isAnalyzing = true implies sessionId is non-null.
ActiveHasSessionId ==
  isAnalyzing => sessionId # Null

\* C18: the session store never holds two active records, and every active
\* record is the one tracked in sessionId.
OneActiveSessionTracked ==
  /\ Cardinality({i \in 1..Len(sessions) : sessions[i].is_active}) <= 1
  /\ \A i \in 1..Len(sessions) : sessions[i].is_active => sessionId = i

====
